---- MODULE Spec2Model ----
(***************************************************************************)
(* Model of the Dimensional Cortex browser extension:                      *)
(*   content_script.js  (page context: capture flag, platform detection,   *)
(*                       extraction, MutationObserver, sendToCortex)       *)
(*   background.js      (background context: relay-channel listener)       *)
(*   popup.js           (popup: ping test button)                          *)
(* Strings the code searches or matches are sequences of chunks, so that   *)
(* String.includes and the pathname regular expression are computed.       *)
(***************************************************************************)
EXTENDS Integers, Sequences, FiniteSets, TLC

(* ------------------------------ bounds -------------------------------- *)
\* network calls that may be in flight (or settled and not yet collected)
MaxNet == 2
\* relay-channel requests that may be open at the background listener
MaxReqs == 2
\* message-level elements the document may hold
MaxDoc == 2
\* failed capture deliveries the history counts
MaxFail == 2
\* readings of the clock (Date.now) beyond the first
MaxTime == 1

(* --------------------------- string helpers --------------------------- *)
\* String.prototype.includes on chunk sequences: needle is a contiguous part
Includes(s, needle) ==
    \E i \in 0..(Len(s) - Len(needle)) :
        \A j \in 1..Len(needle) : s[i + j] = needle[j]

\* the least element of a non-empty set of integers
Lowest(S) == CHOOSE i \in S : \A j \in S : i <= j

\* JavaScript truthiness of the values a message field may carry
Truthy(v) == v \notin {"false", "undefined", ""}

(* ------------------------------ the page ------------------------------ *)
\* window.location: hostname as chunks, pathname as segments ("/" separated)
Pages ==
    { [hostname |-> <<"chat.openai.com">>,       pathname |-> <<"c", "abc123">>],
      [hostname |-> <<"claude.ai">>,             pathname |-> <<"chat", "xyz789">>],
      [hostname |-> <<"www.", "perplexity.ai">>, pathname |-> <<"search", "q1">>],
      [hostname |-> <<"example.com">>,           pathname |-> <<>>] }

\* further addresses for the extraction runs: a ChatGPT page outside any
\* conversation, a host that merely contains a registry host, a host that is
\* only the tail of one, and a Claude address with a /c/ segment
ExtractPages ==
    Pages \cup
    { [hostname |-> <<"chat.openai.com">>,        pathname |-> <<>>],
      [hostname |-> <<"claude.ai", ".evil.com">>, pathname |-> <<"chat", "xyz789">>],
      [hostname |-> <<"openai.com">>,             pathname |-> <<"c", "abc123">>],
      [hostname |-> <<"claude.ai">>,              pathname |-> <<"c", "abc123">>] }

\* the longest prefix of a path segment made of [a-zA-Z0-9-] characters
IdPrefix(seg) ==
    CASE seg = "abc123" -> "abc123"
      [] seg = "xyz789" -> "xyz789"
      [] seg = "q1"     -> "q1"
      [] seg = "c"      -> "c"
      [] seg = "chat"   -> "chat"
      [] seg = "search" -> "search"
      [] OTHER          -> ""

(* ------------------------------ DOM nodes ----------------------------- *)
\* A node a mutation may add.  nodeType 1 is an element, 3 a text node.
\*   marker  : the response-marker selector matched by the node's marker
\*             element, "none" when the node holds no marker element
\*   self    : the node itself is the marker element (node.matches) rather
\*             than an ancestor of it (node.querySelector)
\*   msgAttr : "data-message-author-role" when the node is a ChatGPT
\*             message element, "data-testid=message" when it is a Claude
\*             one, "none" otherwise
\*   role    : the data-message-author-role value, or the text of the
\*             message-sender element ("none" when that element is absent)
\*   text    : textContent of the marker element
Node(nodeType, marker, self, msgAttr, role, text) ==
    [nodeType |-> nodeType, marker |-> marker, self |-> self,
     msgAttr |-> msgAttr, role |-> role, text |-> text]

SelMarkdown == ".markdown"
SelMessageText == "[data-testid=\"message-text\"]"
SelProse == ".prose"

TextNode    == Node(3, "none", FALSE, "none", "none", "Hello world")
PlainDiv    == Node(1, "none", FALSE, "none", "none", "")
GptAnswer   == Node(1, SelMarkdown, FALSE, "data-message-author-role", "assistant", "Hello world")
GptEmpty    == Node(1, SelMarkdown, FALSE, "data-message-author-role", "user", "")
GptBare     == Node(1, SelMarkdown, TRUE, "none", "none", "Hello world")
ClaudeReply == Node(1, SelMessageText, FALSE, "data-testid=message", "Claude", "Hello world")
ClaudeAsk   == Node(1, SelMessageText, FALSE, "data-testid=message", "You", "Hi")
ProseNode   == Node(1, SelProse, TRUE, "none", "none", "Hello world")
\* a ChatGPT message whose role attribute is outside user/assistant, and a
\* Claude message without a message-sender element
GptTool        == Node(1, SelMarkdown, FALSE, "data-message-author-role", "tool", "42")
ClaudeNoSender == Node(1, SelMessageText, FALSE, "data-testid=message", "none", "Hello world")
\* an element whose querySelector raises when the observer calls it
Malformed      == Node(1, "throws", FALSE, "none", "none", "")

Nodes == {TextNode, PlainDiv, GptAnswer, GptBare, ClaudeReply, ProseNode}

\* the added-node lists of the mutation batches delivered to the observer
Batches ==
    {<<>>} \cup {<<node>> : node \in Nodes}
           \cup { <<GptAnswer, GptBare>>, <<ClaudeReply, ClaudeReply>>,
                  <<ProseNode, ProseNode>>, <<TextNode, GptAnswer>>,
                  <<PlainDiv, ClaudeReply>> }

\* the message-element attribute of the platform an address belongs to
MessageAttr(loc) ==
    CASE Includes(loc.hostname, <<"chat.openai.com">>) -> "data-message-author-role"
      [] Includes(loc.hostname, <<"claude.ai">>)       -> "data-testid=message"
      [] OTHER                                          -> "none"

\* the batches of the extraction runs: every message shape of the page's own
\* platform, marker-only nodes of the other platforms and text nodes
ExtractBatches(loc) ==
    { b \in {<<>>, <<TextNode>>, <<GptBare>>, <<ProseNode>>,
              <<GptAnswer>>, <<GptEmpty>>, <<GptTool>>,
              <<ClaudeReply>>, <<ClaudeAsk>>, <<ClaudeNoSender>>,
              <<TextNode, GptAnswer>>, <<TextNode, ClaudeReply>>,
              <<ClaudeAsk, ClaudeReply>>, <<ClaudeReply, ClaudeReply>>,
              <<GptEmpty, GptAnswer>>} :
        \A k \in 1..Len(b) : b[k].msgAttr \in {"none", MessageAttr(loc)} }

\* the batches of the fault runs: those of the extraction runs and batches
\* holding a malformed element, alone, ahead of or behind a response element
FaultBatches(loc) ==
    ExtractBatches(loc) \cup
    { b \in {<<Malformed>>,
              <<GptAnswer, Malformed>>, <<Malformed, GptAnswer>>,
              <<ClaudeReply, Malformed>>, <<Malformed, ClaudeReply>>} :
        \A k \in 1..Len(b) : b[k].msgAttr \in {"none", MessageAttr(loc)} }

(* ------------------- content_script.js: pure parts -------------------- *)
CORTEX_SERVER == <<"http://localhost:5000">>

\* detectPlatform comparing the whole hostname instead of searching in it
detectPlatformExact(loc) ==
    IF loc.hostname = <<"chat.openai.com">> THEN "chatgpt"
    ELSE IF loc.hostname = <<"claude.ai">> THEN "claude"
    ELSE IF loc.hostname = <<"perplexity.ai">> THEN "perplexity"
    ELSE "unknown"

\* detectPlatform(): substring tests on window.location.hostname
detectPlatform(loc) ==
    IF Includes(loc.hostname, <<"chat.openai.com">>) THEN "chatgpt"
    ELSE IF Includes(loc.hostname, <<"claude.ai">>) THEN "claude"
    ELSE IF Includes(loc.hostname, <<"perplexity.ai">>) THEN "perplexity"
    ELSE "unknown"

\* the observer's selectors table; "undefined" for a platform it does not list
selectors(platform) ==
    CASE platform = "chatgpt"    -> SelMarkdown
      [] platform = "claude"     -> SelMessageText
      [] platform = "perplexity" -> SelProse
      [] OTHER                   -> "undefined"

\* pathname.match(/\/c\/([a-zA-Z0-9-]+)/): the positions where "/c/" is
\* followed by at least one identifier character
UrlMatches(pathname) ==
    {i \in 1..(Len(pathname) - 1) :
        pathname[i] = "c" /\ IdPrefix(pathname[i + 1]) # ""}

\* context.conversation_id = urlMatch ? urlMatch[1] : `conv_${Date.now()}`
ConversationId(pathname, t) ==
    IF UrlMatches(pathname) # {}
    THEN <<IdPrefix(pathname[Lowest(UrlMatches(pathname)) + 1])>>
    ELSE <<"conv_", t>>

\* String.prototype.toLowerCase of a sender text, as chunks
ToLowerCase(s) ==
    CASE s = "You"    -> <<"you">>
      [] s = "Claude" -> <<"claude">>
      [] s = "YOUR AI" -> <<"you", "r ai">>
      [] OTHER        -> <<s>>

\* the chatgpt strategy without the `if (content)` test of line 44
ChatgptMessageKeepingEmpty(el) ==
    LET content == IF el.marker = SelMarkdown THEN el.text ELSE ""
    IN  <<[role |-> el.role, content |-> content]>>

\* the chatgpt strategy applied to one element of the document
ChatgptMessage(el) ==
    LET content == IF el.marker = SelMarkdown THEN el.text ELSE ""
    IN  IF Truthy(content) THEN <<[role |-> el.role, content |-> content]>> ELSE <<>>

\* the claude strategy applied to one element of the document
ClaudeMessage(el) ==
    LET role == IF el.role # "none" /\ el.role # ""
                THEN ToLowerCase(el.role) ELSE <<"unknown">>
        content == IF el.marker = SelMessageText THEN el.text ELSE ""
    IN  IF Truthy(content)
        THEN <<[role |-> IF Includes(role, <<"you">>) THEN "user" ELSE "assistant",
                content |-> content]>>
        ELSE <<>>

\* ExtractMessages reading the newest element only instead of the document
ExtractMessagesNewestOnly(platform, d) ==
    IF d = <<>> THEN <<>>
    ELSE LET el == d[Len(d)]
         IN  IF platform = "chatgpt" /\ el.msgAttr = "data-message-author-role"
             THEN ChatgptMessage(el)
             ELSE IF platform = "claude" /\ el.msgAttr = "data-testid=message"
             THEN ClaudeMessage(el)
             ELSE <<>>

RECURSIVE ExtractMessages(_, _)
\* querySelectorAll(...).forEach over the document, in document order
ExtractMessages(platform, d) ==
    IF d = <<>> THEN <<>>
    ELSE LET el == Head(d)
             m == IF platform = "chatgpt" /\ el.msgAttr = "data-message-author-role"
                  THEN ChatgptMessage(el)
                  ELSE IF platform = "claude" /\ el.msgAttr = "data-testid=message"
                  THEN ClaudeMessage(el)
                  ELSE <<>>
         IN  m \o ExtractMessages(platform, Tail(d))

\* extractConversationContext(platform), reading location and document, and
\* the clock twice: t1 is what new Date() reads for the timestamp, t2 what
\* Date.now() reads afterwards for the fallback conversation id
extractConversationContext(platform, loc, t1, t2, d) ==
    [platform        |-> platform,
     url             |-> loc,
     timestamp       |-> <<"iso", t1>>,
     conversation_id |-> ConversationId(loc.pathname, t2),
     messages        |-> ExtractMessages(platform, d)]

\* what n successive readings of a clock may return between lo and hi: the
\* clock never runs backwards, and it may or may not advance between readings
Readings(n, lo, hi) ==
    {reads \in [1..n -> lo..hi] : \A k \in 1..(n - 1) : reads[k] <= reads[k + 1]}

\* the node test without the querySelector half: only a node that is itself
\* the marker element passes
IsResponseNodeMatchesOnly(node, selector) ==
    /\ node.nodeType = 1
    /\ node.marker = selector /\ node.self

\* the observer's test of one added node against the platform's selector
IsResponseNode(node, selector) ==
    /\ node.nodeType = 1
    /\ \/ (node.marker = selector /\ ~node.self)   \* node.querySelector(selector)
       \/ (node.marker = selector /\ node.self)    \* node.matches(selector)

(* -------------------------- message alphabets ------------------------- *)
\* values the enabled field of a control message may carry
EnabledValues == {"true", "false", "undefined", "1"}

\* messages delivered to the content script's onMessage listener
ControlMsgs ==
    [action : {"toggle"}, enabled : EnabledValues]
        \cup {[action |-> "pingServer", enabled |-> "undefined"]}

\* messages delivered to the background's onMessage listener
RelayActions == {"enrichPrompt", "pingServer", "getStats"}
RelayTexts == {"prompt", "hello"}
PingText == "This is a test from the extension"

\* what the network may answer to one HTTP call: the call is rejected
\* (neterr), or a response arrives with response.ok and a body that is a
\* JSON document or "unparseable"
Responses ==
    { [neterr |-> TRUE,  ok |-> FALSE, body |-> "unparseable"],
      [neterr |-> FALSE, ok |-> TRUE,  body |-> "ack"],
      [neterr |-> FALSE, ok |-> TRUE,  body |-> "unparseable"],
      [neterr |-> FALSE, ok |-> FALSE, body |-> "errdoc"],
      [neterr |-> FALSE, ok |-> FALSE, body |-> "unparseable"] }

\* what response.json() may make of the body of a response
Bodies == {resp.body : resp \in Responses}

\* JSON.stringify of a request body
JSONstringify(data) == <<"json", data>>

VARIABLES
    page,          \* window.location of the page the content script runs in
    isCapturing,   \* content_script.js: let isCapturing
    doc,           \* message-level elements of the document, in document order
    now,           \* the clock read by new Date() and Date.now()
    net,           \* network calls: slot -> call record
    reqs,          \* relay-channel requests at the background: slot -> record
    popupStatus,   \* popup.js: statusEl.textContent
    failures,      \* history: capture deliveries that ended in the catch block
    lastToggle,    \* history: the enabled value of the last toggle message
    last           \* history: the handler that ran last and what it did

vars == <<page, isCapturing, doc, now, net, reqs, popupStatus, failures, lastToggle, last>>

NetSlots == 1..MaxNet
ReqSlots == 1..MaxReqs
Free == [pc |-> "free"]

FreeNet(n) == {i \in NetSlots : n[i].pc = "free"}
FreeReqs == {r \in ReqSlots : reqs[r].pc = "free"}

Init ==
    /\ page \in Pages
    /\ isCapturing = "false"
    /\ doc = <<>>
    /\ now = 0
    /\ net = [i \in NetSlots |-> Free]
    /\ reqs = [r \in ReqSlots |-> Free]
    /\ popupStatus = ""
    /\ failures = 0
    /\ lastToggle = "none"
    /\ last = [op |-> "init"]

(* ----------------------- content_script.js: actions ------------------- *)
\* ContentOnMessage that flips the flag on a toggle instead of storing the
\* enabled value of the message
ContentOnMessageFlipping(request) ==
    /\ IF request.action = "toggle"
       THEN /\ isCapturing' = (IF Truthy(isCapturing) THEN "false" ELSE "true")
            /\ lastToggle' = request.enabled
            /\ last' = [op |-> "toggle", enabled |-> request.enabled,
                        ack |-> <<[status |-> "ok"]>>]
       ELSE /\ isCapturing' = isCapturing
            /\ lastToggle' = lastToggle
            /\ last' = [op |-> "ignored", ack |-> <<>>]
    /\ UNCHANGED <<page, doc, now, net, reqs, popupStatus, failures>>

\* ContentOnMessage that aborts the pending capture deliveries when capture
\* is switched off
ContentOnMessageAborting(request) ==
    /\ IF request.action = "toggle"
       THEN /\ isCapturing' = request.enabled
            /\ lastToggle' = request.enabled
            /\ last' = [op |-> "toggle", enabled |-> request.enabled,
                        ack |-> <<[status |-> "ok"]>>]
            /\ net' = IF Truthy(request.enabled) THEN net
                      ELSE [i \in NetSlots |->
                              IF net[i].pc # "free" /\ net[i].ctx = "page"
                              THEN Free ELSE net[i]]
       ELSE /\ isCapturing' = isCapturing
            /\ lastToggle' = lastToggle
            /\ last' = [op |-> "ignored", ack |-> <<>>]
            /\ net' = net
    /\ UNCHANGED <<page, doc, now, reqs, popupStatus, failures>>

\* chrome.runtime.onMessage listener of the content script
ContentOnMessage(request) ==
    /\ IF request.action = "toggle"
       THEN /\ isCapturing' = request.enabled
            /\ lastToggle' = request.enabled
            /\ last' = [op |-> "toggle", enabled |-> request.enabled,
                        ack |-> <<[status |-> "ok"]>>]
       ELSE /\ isCapturing' = isCapturing
            /\ lastToggle' = lastToggle
            /\ last' = [op |-> "ignored", ack |-> <<>>]
    /\ UNCHANGED <<page, doc, now, net, reqs, popupStatus, failures>>

\* sendToCortex posting the snapshot without its url field
sendToCortexWithoutUrl(n, data) ==
    [n EXCEPT ![Lowest(FreeNet(n))] =
        [pc |-> "pending", ctx |-> "page", url |-> CORTEX_SERVER \o <<"/ingest">>,
         method |-> "POST",
         body |-> JSONstringify([platform |-> data.platform,
                                 timestamp |-> data.timestamp,
                                 conversation_id |-> data.conversation_id,
                                 messages |-> data.messages]),
         req |-> 0, posts |-> 1, response |-> <<>>]]

\* sendToCortex(data) up to its first await: the fetch is issued
sendToCortex(n, data) ==
    [n EXCEPT ![Lowest(FreeNet(n))] =
        [pc |-> "pending", ctx |-> "page", url |-> CORTEX_SERVER \o <<"/ingest">>,
         method |-> "POST", body |-> JSONstringify(data), req |-> 0, posts |-> 1, response |-> <<>>]]

\* Triggers without the isCapturing test of line 90
TriggersIgnoringFlag(flag, loc, added) ==
    LET platform == detectPlatform(loc)
        selector == selectors(platform)
    IN  IF selector = "undefined" THEN <<>>
        ELSE SelectSeq(added, LAMBDA node : IsResponseNode(node, selector))

\* Triggers that gives up after the first response element of a batch
TriggersStoppingAfterFirst(flag, loc, added) ==
    LET all == TriggersIgnoringFlag(flag, loc, added)
    IN  IF ~Truthy(flag) \/ all = <<>> THEN <<>> ELSE <<Head(all)>>

\* Triggers behind a lock: nothing is sent while a delivery is pending
TriggersWhenIdle(flag, loc, added) ==
    IF \E i \in NetSlots : net[i].pc # "free" THEN <<>>
    ELSE IF ~Truthy(flag) THEN <<>>
    ELSE TriggersIgnoringFlag(flag, loc, added)

\* Triggers with a circuit breaker: no capture after two failed deliveries
TriggersWithBreaker(flag, loc, added) ==
    IF ~Truthy(flag) \/ failures >= 2 THEN <<>>
    ELSE TriggersIgnoringFlag(flag, loc, added)

\* node.querySelector(selector) raises on this node
Throws(node) == node.nodeType = 1 /\ node.marker = "throws"

RECURSIVE BeforeThrow(_)
\* the added nodes the forEach loops reach: an exception ends the callback,
\* nothing in it catches one
BeforeThrow(added) ==
    IF added = <<>> \/ Throws(Head(added)) THEN <<>>
    ELSE <<Head(added)>> \o BeforeThrow(Tail(added))

\* the added nodes of a batch for which the observer extracts and sends
Triggers(flag, loc, added) ==
    IF ~Truthy(flag) THEN <<>>
    ELSE LET platform == detectPlatform(loc)
             selector == selectors(platform)
         IN  IF selector = "undefined" THEN <<>>
             ELSE SelectSeq(BeforeThrow(added),
                            LAMBDA node : IsResponseNode(node, selector))

\* an exception leaves the observer callback uncaught
Escapes(flag, loc, added) ==
    /\ Truthy(flag)
    /\ selectors(detectPlatform(loc)) # "undefined"
    /\ \E k \in 1..Len(added) : Throws(added[k])

\* ObserverSends that sends once per batch however many nodes qualify
ObserverSendsOnce(n, platform, loc, d, reads) ==
    IF reads = <<>> THEN n
    ELSE sendToCortex(n, extractConversationContext(platform, loc, reads[1], reads[2], d))

RECURSIVE ObserverSends(_, _, _, _, _)
\* one extractConversationContext + sendToCortex per triggering node; every
\* extraction reads the clock anew, reads holds two readings per node
ObserverSends(n, platform, loc, d, reads) ==
    IF reads = <<>> THEN n
    ELSE ObserverSends(
            sendToCortex(n, extractConversationContext(platform, loc, reads[1], reads[2], d)),
            platform, loc, d, SubSeq(reads, 3, Len(reads)))

\* the elements of the added nodes that querySelectorAll can later select
MessageElements(added) == SelectSeq(added, LAMBDA node : node.msgAttr # "none")

\* observation for the history variable, stated from the platform table of
\* the specification and not from the observer's code: the added nodes that
\* are, or contain, an element carrying the response marker of the platform
\* the page address belongs to
MarkerNodes(loc, added) ==
    SelectSeq(added, LAMBDA node :
        /\ node.nodeType = 1
        /\ \/ Includes(loc.hostname, <<"chat.openai.com">>) /\ node.marker = SelMarkdown
           \/ Includes(loc.hostname, <<"claude.ai">>) /\ node.marker = SelMessageText
           \/ Includes(loc.hostname, <<"perplexity.ai">>) /\ node.marker = SelProse)

\* the page removes its `removed` oldest message elements and adds the nodes
\* `added`; the MutationObserver callback then runs on the batch, and its
\* extractions read the clock values `reads`, two per triggering node. The
\* history keeps the snapshot of the last extraction of the batch (for a
\* batch without one, what an extraction would have returned)
ObserverCallback(added, removed, reads) ==
    LET triggers == Triggers(isCapturing, page, added)
        after == SubSeq(doc, removed + 1, Len(doc)) \o MessageElements(added)
        platform == detectPlatform(page)
        n == Len(reads)
        context == IF n = 0
                   THEN extractConversationContext(platform, page, now, now, after)
                   ELSE extractConversationContext(platform, page,
                                                   reads[n - 1], reads[n], after)
    IN  /\ removed \in 0..Len(doc)
        /\ Len(after) <= MaxDoc
        /\ Len(triggers) <= Cardinality(FreeNet(net))
        /\ reads \in Readings(2 * Len(triggers), now, MaxTime)
        /\ doc' = after
        /\ now' = IF n = 0 THEN now ELSE reads[n]
        /\ net' = ObserverSends(net, platform, page, after, reads)
        /\ last' = [op |-> "batch", flag |-> isCapturing,
                    markerNodes |-> Len(MarkerNodes(page, added)),
                    extractions |-> Len(triggers),
                    fetches |-> Cardinality(FreeNet(net)) - Cardinality(FreeNet(net')),
                    context |-> context,
                    escaped |-> Escapes(isCapturing, page, added)]
        /\ UNCHANGED <<page, isCapturing, reqs, popupStatus, failures, lastToggle>>

\* JavaScript null, and a parsed JSON document
Null == [null |-> TRUE]
Parsed(body) == [json |-> body]

IsFailure(resp) == resp.neterr \/ ~resp.ok \/ resp.body = "unparseable"

\* the try block of sendToCortex between its two awaits, given how the fetch
\* settled: it throws when the fetch is rejected or response.ok is false
SendToCortexTry(resp) ==
    IF resp.neterr THEN [threw |-> TRUE]
    ELSE IF ~resp.ok THEN [threw |-> TRUE]
    ELSE [threw |-> FALSE]

\* the catch block of sendToCortex: every throw becomes the value null the
\* returned promise is fulfilled with
SendToCortexCatch == [promise |-> "fulfilled", value |-> Null]

\* SendToCortexResume with a retry: a failed delivery is posted again
SendToCortexResumeRetrying(i, resp) ==
    /\ net[i].pc = "pending"
    /\ net[i].ctx = "page"
    /\ IF SendToCortexTry(resp).threw
       THEN /\ failures < MaxFail
            /\ last' = [op |-> "delivery", promise |-> SendToCortexCatch.promise,
                        result |-> SendToCortexCatch.value, resp |-> resp,
                        posts |-> net[i].posts, at |-> net[i].body[2].timestamp]
            /\ failures' = failures + 1
            /\ net' = [net EXCEPT ![i].posts = @ + 1]
       ELSE /\ last' = [op |-> "headers", ctx |-> "page", ok |-> resp.ok]
            /\ failures' = failures
            /\ net' = [net EXCEPT ![i].pc = "json", ![i].response = <<[ok |-> resp.ok]>>]
    /\ UNCHANGED <<page, isCapturing, doc, now, reqs, popupStatus, lastToggle>>

\* SendToCortexResume with a catch block that also switches capture off
SendToCortexResumeDisabling(i, resp) ==
    /\ net[i].pc = "pending"
    /\ net[i].ctx = "page"
    /\ IF SendToCortexTry(resp).threw
       THEN /\ failures < MaxFail
            /\ last' = [op |-> "delivery", promise |-> SendToCortexCatch.promise,
                        result |-> SendToCortexCatch.value, resp |-> resp,
                        posts |-> net[i].posts, at |-> net[i].body[2].timestamp]
            /\ failures' = failures + 1
            /\ isCapturing' = "false"
            /\ net' = [net EXCEPT ![i] = Free]
       ELSE /\ last' = [op |-> "headers", ctx |-> "page", ok |-> resp.ok]
            /\ failures' = failures
            /\ isCapturing' = isCapturing
            /\ net' = [net EXCEPT ![i].pc = "json", ![i].response = <<[ok |-> resp.ok]>>]
    /\ UNCHANGED <<page, doc, now, reqs, popupStatus, lastToggle>>

\* sendToCortex resumes from its first await: the fetch of slot i has settled
\* as resp says (rejected, or a response whose headers are in; its body is
\* not read yet). A throw runs the catch block, which returns null; otherwise
\* response.json() is called and sendToCortex suspends at its second await
SendToCortexResume(i, resp) ==
    /\ net[i].pc = "pending"
    /\ net[i].ctx = "page"
    /\ IF SendToCortexTry(resp).threw
       THEN /\ failures < MaxFail
            /\ last' = [op |-> "delivery", promise |-> SendToCortexCatch.promise,
                        result |-> SendToCortexCatch.value, resp |-> resp,
                        posts |-> net[i].posts, at |-> net[i].body[2].timestamp]
            /\ failures' = failures + 1
            /\ net' = [net EXCEPT ![i] = Free]
       ELSE /\ last' = [op |-> "headers", ctx |-> "page", ok |-> resp.ok]
            /\ failures' = failures
            /\ net' = [net EXCEPT ![i].pc = "json", ![i].response = <<[ok |-> resp.ok]>>]
    /\ UNCHANGED <<page, isCapturing, doc, now, reqs, popupStatus, lastToggle>>

\* sendToCortex resumes from its second await: response.json() of slot i has
\* settled, body being what it made of the response body. A rejection runs
\* the catch block, which returns null; otherwise the parsed body is returned
SendToCortexJson(i, body) ==
    /\ net[i].pc = "json"
    /\ net[i].ctx = "page"
    /\ LET resp == [neterr |-> FALSE, ok |-> net[i].response[1].ok, body |-> body]
           threw == body = "unparseable"
           result == IF threw THEN SendToCortexCatch
                     ELSE [promise |-> "fulfilled", value |-> Parsed(body)]
       IN  /\ resp \in Responses
           /\ threw => failures < MaxFail
           /\ last' = [op |-> "delivery", promise |-> result.promise,
                       result |-> result.value, resp |-> resp, posts |-> net[i].posts,
                       at |-> net[i].body[2].timestamp]
           /\ failures' = IF threw THEN failures + 1 ELSE failures
    /\ net' = [net EXCEPT ![i] = Free]
    /\ UNCHANGED <<page, isCapturing, doc, now, reqs, popupStatus, lastToggle>>

(* --------------------------- background.js ---------------------------- *)
\* the enrichPrompt fetch aimed at the capture endpoint
FetchIngest(n, r, text) ==
    [n EXCEPT ![Lowest(FreeNet(n))] =
        [pc |-> "pending", ctx |-> "background",
         url |-> CORTEX_SERVER \o <<"/ingest">>,
         method |-> "POST",
         body |-> JSONstringify([text |-> text, platform |-> "ChromeExtension_v2"]),
         req |-> r, posts |-> 1, response |-> <<>>]]

\* fetch("http://127.0.0.1:8000/process_interaction", {method: "POST", ...})
FetchProcessInteraction(n, r, text) ==
    [n EXCEPT ![Lowest(FreeNet(n))] =
        [pc |-> "pending", ctx |-> "background",
         url |-> <<"http://127.0.0.1:8000", "/process_interaction">>,
         method |-> "POST",
         body |-> JSONstringify([text |-> text, platform |-> "ChromeExtension_v2"]),
         req |-> r, posts |-> 1, response |-> <<>>]]

\* a context of the extension calls chrome.runtime.sendMessage(message, callback)
RelaySend(r, action, text) ==
    /\ FreeReqs # {}
    /\ r = Lowest(FreeReqs)
    /\ reqs' = [reqs EXCEPT ![r] =
            [pc |-> "sent", from |-> "external", action |-> action, text |-> text,
             channel |-> "open", replies |-> <<>>, fetches |-> 0]]
    /\ last' = [op |-> "send"]
    /\ UNCHANGED <<page, isCapturing, doc, now, net, popupStatus, failures, lastToggle>>

\* popup.js: the click handler of testButton
PopupClick(r) ==
    /\ FreeReqs # {}
    /\ r = Lowest(FreeReqs)
    /\ popupStatus' = "Pinging..."
    /\ reqs' = [reqs EXCEPT ![r] =
            [pc |-> "sent", from |-> "popup", action |-> "pingServer", text |-> PingText,
             channel |-> "open", replies |-> <<>>, fetches |-> 0]]
    /\ last' = [op |-> "click"]
    /\ UNCHANGED <<page, isCapturing, doc, now, net, failures, lastToggle>>

\* ListenerReturns without the "return true" of line 30
ListenerReturnsNothing(action) == "undefined"

\* ListenerReturns with a "return true" after the branches, for any action
ListenerReturnsTrueAlways(action) == "true"

\* the return value of the background listener for a request
ListenerReturns(action) ==
    IF action = "enrichPrompt" THEN "true"
    ELSE IF action = "pingServer" THEN "true"
    ELSE "undefined"

\* chrome.runtime.onMessage listener of the background context, to its return
BackgroundOnMessage(r) ==
    /\ reqs[r].pc = "sent"
    /\ IF reqs[r].action = "enrichPrompt"
       THEN /\ FreeNet(net) # {}
            /\ net' = FetchProcessInteraction(net, r, reqs[r].text)
            /\ reqs' = [reqs EXCEPT ![r].pc = "handled", ![r].fetches = @ + 1,
                            ![r].channel = IF Truthy(ListenerReturns(reqs[r].action))
                                           THEN "open" ELSE "closed"]
       ELSE /\ net' = net
            /\ reqs' = [reqs EXCEPT ![r].pc = "handled",
                            ![r].channel = IF Truthy(ListenerReturns(reqs[r].action))
                                           THEN "open" ELSE "closed"]
    /\ last' = [op |-> "listener", req |-> r, action |-> reqs[r].action,
                returned |-> ListenerReturns(reqs[r].action)]
    /\ UNCHANGED <<page, isCapturing, doc, now, popupStatus, failures, lastToggle>>

\* the reply the promise chain of the enrichPrompt branch sends for a
\* response, once both of its reactions have run
EnrichReply(resp) ==
    IF resp.neterr THEN [status |-> "error"]                  \* fetch rejected -> .catch
    ELSE IF resp.body = "unparseable" THEN [status |-> "error"] \* response.json() rejected
    ELSE [status |-> "ok", data |-> resp.body]

\* ReplyChannel with one shared sendResponse: the reply goes to the oldest
\* request whose channel is open, whichever request the call was made for
ReplyChannelShared(i) ==
    LET open == {q \in ReqSlots : reqs[q].pc \in {"handled", "replied"}
                                   /\ reqs[q].channel = "open"}
    IN  IF open = {} THEN net[i].req ELSE Lowest(open)

\* the request whose sendResponse the promise chain of call i closes over
ReplyChannel(i) == net[i].req

\* sendResponse(reply) of call i: the reply reaches the sender of the request
\* unless its channel is closed
SendResponse(i, resp) ==
    LET r == ReplyChannel(i)
        live == reqs[r].pc \in {"handled", "replied"} /\ reqs[r].channel = "open"
    IN  /\ reqs' = IF live
                   THEN [reqs EXCEPT ![r].replies = Append(@, EnrichReply(resp)),
                                     ![r].pc = "replied"]
                   ELSE reqs
        /\ last' = [op |-> "reply", req |-> r, resp |-> resp,
                    reply |-> EnrichReply(resp), delivered |-> live]

\* the fetch of slot i settles as resp says and the first reaction of the
\* promise chain runs: a rejection falls through to .catch, which answers
\* {status: "error"}; a response, whatever its status, has response.json()
\* called on it, and the chain waits for the body
EnrichSettle(i, resp) ==
    /\ net[i].pc = "pending"
    /\ net[i].ctx = "background"
    /\ net[i].req \in ReqSlots
    /\ IF resp.neterr
       THEN /\ SendResponse(i, resp)
            /\ net' = [net EXCEPT ![i] = Free]
       ELSE /\ reqs' = reqs
            /\ last' = [op |-> "headers", ctx |-> "background", ok |-> resp.ok]
            /\ net' = [net EXCEPT ![i].pc = "json", ![i].response = <<[ok |-> resp.ok]>>]
    /\ UNCHANGED <<page, isCapturing, doc, now, popupStatus, failures, lastToggle>>

\* response.json() of slot i settles, body being what it made of the response
\* body, and the second reaction of the chain runs: sendResponse with the
\* parsed data, or .catch with {status: "error"} when the parse was rejected
EnrichJson(i, body) ==
    /\ net[i].pc = "json"
    /\ net[i].ctx = "background"
    /\ net[i].req \in ReqSlots
    /\ LET resp == [neterr |-> FALSE, ok |-> net[i].response[1].ok, body |-> body]
       IN  /\ resp \in Responses
           /\ SendResponse(i, resp)
    /\ net' = [net EXCEPT ![i] = Free]
    /\ UNCHANGED <<page, isCapturing, doc, now, popupStatus, failures, lastToggle>>

\* the listener returned true for a request whose branch keeps no reference
\* to sendResponse (pingServer): once sendResponse is garbage-collected the
\* browser closes the channel, and the sender's callback will run without a
\* response
SendResponseCollected(r) ==
    /\ reqs[r].pc = "handled"
    /\ reqs[r].channel = "open"
    /\ reqs[r].action # "enrichPrompt"
    /\ reqs' = [reqs EXCEPT ![r].channel = "closed"]
    /\ last' = [op |-> "collected", req |-> r]
    /\ UNCHANGED <<page, isCapturing, doc, now, net, popupStatus, failures, lastToggle>>

\* the response the sender's callback receives: the first reply sent on the
\* channel, or undefined
Response(replies) == IF replies = <<>> THEN <<>> ELSE <<Head(replies)>>

\* PopupText that takes a missing response for a success
PopupTextOptimistic(response) ==
    IF response = <<>> \/ response[1].status = "ok" THEN "Success!" ELSE "Error!"

\* popup.js: the text the sendMessage callback writes for a response
\* (<<>> stands for an undefined response)
PopupText(response) ==
    IF response # <<>> /\ response[1].status = "ok" THEN "Success!" ELSE "Error!"

\* the sender's callback runs: with the reply, or with undefined when the
\* listener closed the channel without replying
SenderCallback(r) ==
    /\ reqs[r].pc \in {"handled", "replied"}
    /\ reqs[r].pc = "handled" => reqs[r].channel = "closed"
    /\ popupStatus' = IF reqs[r].from = "popup"
                      THEN PopupText(Response(reqs[r].replies))
                      ELSE popupStatus
    /\ reqs' = [reqs EXCEPT ![r] = Free]
    /\ last' = [op |-> "callback", from |-> reqs[r].from, action |-> reqs[r].action,
                response |-> Response(reqs[r].replies)]
    /\ UNCHANGED <<page, isCapturing, doc, now, net, failures, lastToggle>>

(* ------------------------------- claims ------------------------------- *)
\* the capture calls (sendToCortex invocations) that have not returned yet
PageCalls == {i \in NetSlots : net[i].pc # "free" /\ net[i].ctx = "page"}

\* the history record l is that of a step in which a sendToCortex call
\* resumed from one of its awaits
CaptureResumed(l) == l.op = "delivery" \/ (l.op = "headers" /\ l.ctx = "page")

\* C1: a batch delivered while the last toggle said enabled=false runs no
\* extraction and issues no network call, whatever it adds; a batch
\* delivered while the last toggle said enabled=true that adds a node
\* holding the platform's response marker issues a delivery.
C1_DisabledBatchesAreSilent ==
    last.op = "batch" =>
        /\ lastToggle = "false" => (last.extractions = 0 /\ last.fetches = 0)
        /\ (lastToggle = "true" /\ last.markerNodes >= 1) =>
                (last.extractions >= 1 /\ last.fetches >= 1 /\ PageCalls # {})

\* C1 witness: a batch that added a response-marker node was delivered after
\* a disable toggle, and nothing was extracted or sent.
C1_Witness ==
    /\ last.op = "batch"
    /\ lastToggle = "false"
    /\ last.markerNodes >= 1
    /\ last.fetches = 0
    /\ PageCalls = {}

\* C2 (as stated): no capture call carries a snapshot whose messages list
\* is empty.
C2_NoEmptySnapshot ==
    \A i \in PageCalls : net[i].body[2].messages # <<>>

\* C3: the watcher starts idle, and the capture flag changes only in a step
\* that handles a toggle message: never in a batch, a delivery outcome or
\* any other step.
C3_FlagChangesOnlyOnToggle ==
    /\ isCapturing = "false"
    /\ [][isCapturing' # isCapturing => last'.op = "toggle"]_vars

\* C3 witness: a capture delivery has just failed and the watcher is active.
C3_Witness ==
    /\ last.op = "delivery"
    /\ last.result = Null
    /\ isCapturing = "true"

\* C7: a capture delivery, failed or not, changes no watcher state (flag,
\* document, address) at either of its resumptions, and whatever the number of failed deliveries so far, a batch
\* delivered while capture is on issues one delivery per added node that
\* holds the platform's response marker.
C7_FailuresNeverSuppressCapture ==
    /\ [][CaptureResumed(last') => UNCHANGED <<isCapturing, doc, page, lastToggle>>]_vars
    /\ []((last.op = "batch" /\ last.flag = "true") =>
            (last.fetches = last.markerNodes /\ last.extractions = last.markerNodes))

\* C7 witness: after two failed deliveries, still active, a batch has just
\* issued a new delivery.
C7_Witness ==
    /\ failures >= 2
    /\ isCapturing = "true"
    /\ last.op = "batch"
    /\ last.fetches >= 1


(* ---------------------- claims: background context ------------------- *)
\* the network call, if any, that is in flight for request r
CallsOf(r) ==
    {i \in NetSlots : net[i].pc # "free" /\ net[i].ctx = "background" /\ net[i].req = r}

\* C4 (as stated): the reply to a relay request is {status:"ok", data}
\* exactly when the HTTP response was 2xx with a parseable body, and
\* {status:"error"} on a network failure, a non-2xx response or a body that
\* does not parse.
C4_OkIffSuccess ==
    last.op = "reply" =>
        IF ~last.resp.neterr /\ last.resp.ok /\ last.resp.body # "unparseable"
        THEN last.reply = [status |-> "ok", data |-> last.resp.body]
        ELSE last.reply = [status |-> "error"]

\* C5 (as stated, its first half): every pingServer request the background
\* listener has handled has caused a network round trip.
C5_PingCausesRoundTrip ==
    \A r \in ReqSlots :
        (reqs[r].pc \in {"handled", "replied"} /\ reqs[r].action = "pingServer")
            => (reqs[r].fetches >= 1 \/ reqs[r].replies # <<>>)

\* C6: for every enrichPrompt request, the listener returns true with no
\* reply sent yet; while the network call is pending the reply channel is
\* open and nothing has been sent on it; once a reply has been sent it is
\* the only one and the call is no longer pending; the sender's callback
\* never runs without that reply.
C6_ChannelHeldUntilSettled ==
    /\ \A r \in ReqSlots :
          (reqs[r].pc # "free" /\ reqs[r].action = "enrichPrompt") =>
              /\ reqs[r].pc = "sent" => (reqs[r].replies = <<>> /\ CallsOf(r) = {})
              /\ reqs[r].pc = "handled" =>
                    /\ reqs[r].channel = "open"
                    /\ reqs[r].replies = <<>>
                    /\ Cardinality(CallsOf(r)) = 1
              /\ reqs[r].pc = "replied" =>
                    /\ Len(reqs[r].replies) = 1
                    /\ CallsOf(r) = {}
    /\ (last.op = "listener" /\ last.action = "enrichPrompt") =>
          (last.returned = "true" /\ reqs[last.req].replies = <<>>)
    /\ (last.op = "callback" /\ last.action = "enrichPrompt") => last.response # <<>>
    /\ last.op = "reply" => last.delivered

\* C6 witness: the network call of an enrichPrompt request was rejected and
\* the one reply has been sent on the still-open channel.
C6_Witness ==
    /\ last.op = "reply"
    /\ last.resp.neterr
    /\ reqs[last.req].pc = "replied"
    /\ reqs[last.req].channel = "open"
    /\ Len(reqs[last.req].replies) = 1

(* ------------------------ claims: both contexts ----------------------- *)
IngestUrl == CORTEX_SERVER \o <<"/ingest">>
ProcessInteractionUrl == <<"http://127.0.0.1:8000", "/process_interaction">>

\* C8: every request has issued exactly one HTTP POST (a capture to
\* /ingest, an enrichPrompt to /process_interaction); a capture delivery
\* ends, failed or not, after that one POST, its call is gone afterwards
\* and no step but a batch or the background listener adds a call; an
\* enrichPrompt request that was answered has no call left.
C8_OnePostNoRetry ==
    /\ [](/\ \A i \in NetSlots : net[i].pc # "free" =>
                /\ net[i].posts = 1
                /\ net[i].method = "POST"
                /\ net[i].ctx = "page" => net[i].url = IngestUrl
                /\ net[i].ctx = "background" =>
                      (net[i].url = ProcessInteractionUrl /\ reqs[net[i].req].fetches = 1)
          /\ \A r \in ReqSlots :
                (reqs[r].pc \in {"handled", "replied"} /\ reqs[r].action = "enrichPrompt") =>
                    /\ reqs[r].fetches = 1
                    /\ reqs[r].pc = "replied" => CallsOf(r) = {}
          /\ last.op = "delivery" => last.posts = 1)
    /\ [][/\ last'.op = "delivery" =>
                Cardinality(PageCalls') = Cardinality(PageCalls) - 1
          /\ (\E i \in NetSlots : net[i].pc = "free" /\ net'[i].pc # "free") =>
                last'.op \in {"batch", "listener"}]_vars

\* C8 witness: a capture delivery has just failed and left no call behind,
\* while an enrichPrompt request has been answered {status:"error"}.
C8_Witness ==
    /\ last.op = "delivery"
    /\ IsFailure(last.resp)
    /\ PageCalls = {}
    /\ \E r \in ReqSlots :
          /\ reqs[r].pc = "replied"
          /\ reqs[r].replies = <<[status |-> "error"]>>
          /\ CallsOf(r) = {}

\* C9 (as stated): a failed capture delivery is reported to the caller as
\* {status:"error"}, through a fulfilled promise.
C9_FailureReportedAsError ==
    (last.op = "delivery" /\ IsFailure(last.resp)) =>
        (last.promise = "fulfilled" /\ last.result = [status |-> "error"])

\* C10 (as stated): the page context performs no network call; every call,
\* and so every POST to /ingest, is issued by the background context.
C10_OnlyBackgroundPosts ==
    \A i \in NetSlots : net[i].pc # "free" => net[i].ctx = "background"

(* ------------------------ extraction and capture ---------------------- *)
\* C11 (as stated): on https://claude.ai/chat/xyz789 with capture enabled, a
\* batch that adds one node holding the response marker with text
\* "Hello world" and sender "Claude" yields the snapshot with platform
\* "claude", conversation id "xyz789" and the single message
\* {role:"assistant", content:"Hello world"}, and exactly one POST to
\* /ingest carrying that snapshot.
C11_ClaudeEndToEnd ==
    (/\ last.op = "batch" /\ last.flag = "true"
     /\ page = [hostname |-> <<"claude.ai">>, pathname |-> <<"chat", "xyz789">>]
     /\ doc = <<ClaudeReply>> /\ last.markerNodes = 1)
    => /\ last.context.platform = "claude"
       /\ last.context.conversation_id = <<"xyz789">>
       /\ last.context.messages = <<[role |-> "assistant", content |-> "Hello world"]>>
       /\ last.fetches = 1
       /\ \E i \in PageCalls : /\ net[i].url = IngestUrl
                               /\ net[i].method = "POST"
                               /\ net[i].body = JSONstringify(last.context)

\* the conversation identifier segment of an address, by the address schemes
\* of the platforms (/c/<id>, /chat/<id>, /search/<id>); "" when the path
\* holds none
IdSegment(loc) ==
    IF Len(loc.pathname) = 2 /\ loc.pathname[1] \in {"c", "chat", "search"}
    THEN loc.pathname[2] ELSE ""

\* C12 (as stated): every snapshot sent has a non-null conversation id; it
\* is the identifier segment of the address path when the path holds one,
\* on every supported platform, and otherwise a synthetic identifier made
\* from the capture timestamp; snapshots captured at different timestamps
\* carry different synthetic identifiers.
C12_IdFromPathOrClock ==
    /\ \A i \in PageCalls :
          LET c == net[i].body[2]
          IN  /\ c.conversation_id # <<>>
              /\ IF IdSegment(c.url) # ""
                 THEN c.conversation_id = <<IdSegment(c.url)>>
                 ELSE c.conversation_id = <<"conv_", c.timestamp[2]>>
    /\ \A i, j \in PageCalls :
          LET c == net[i].body[2]
              d == net[j].body[2]
          IN  (IdSegment(c.url) = "" /\ c.timestamp # d.timestamp)
              => c.conversation_id # d.conversation_id

\* the platform a host belongs to, by the registry of known hosts: a host
\* that contains a registry name carries that platform's tag
HostTag(hostname) ==
    CASE hostname = <<"chat.openai.com">>        -> "chatgpt"
      [] hostname = <<"claude.ai">>              -> "claude"
      [] hostname = <<"claude.ai", ".evil.com">> -> "claude"
      [] hostname = <<"www.", "perplexity.ai">>  -> "perplexity"
      [] hostname = <<"openai.com">>             -> "unknown"
      [] hostname = <<"example.com">>            -> "unknown"

\* C13: the platform the observer detects depends on the host of the page
\* address alone: it is the tag of the registry host the hostname contains
\* and "unknown" when it contains none, whatever the path; detection never
\* raises, and on an unknown platform the batch ends there, with no
\* extraction and no network call.
C13_TagIsFunctionOfHost ==
    (last.op = "batch" /\ Truthy(last.flag))
    => /\ last.context.platform = HostTag(page.hostname)
       /\ last.context.platform \in {"chatgpt", "claude", "perplexity", "unknown"}
       /\ last.context.platform = "unknown"
            => (last.extractions = 0 /\ last.fetches = 0 /\ ~last.escaped)

C13_Witness ==
    /\ last.op = "batch" /\ last.flag = "true"
    /\ page.hostname = <<"www.", "perplexity.ai">>
    /\ last.context.platform = "perplexity"
    /\ last.extractions = 1

\* C14: every toggle message is answered inside the listener call with
\* exactly {status:"ok"}, the capture flag afterwards is the enabled value
\* the message carried, and the step changes nothing else: no network call
\* appears or disappears, the document and the address are as before, and
\* the requests held by the background context are untouched.
C14_ToggleAckAndFrame ==
    /\ [](last.op = "toggle" =>
            (last.ack = <<[status |-> "ok"]>> /\ isCapturing = last.enabled))
    /\ [][last'.op = "toggle" =>
            UNCHANGED <<page, doc, now, net, reqs, popupStatus, failures>>]_vars

\* C14 witness: capture has just been switched off while a capture delivery
\* is in flight and the background context holds an open request.
C14_Witness ==
    /\ last.op = "toggle" /\ last.enabled = "false" /\ isCapturing = "false"
    /\ \E i \in PageCalls : net[i].pc = "pending"
    /\ \E r \in ReqSlots : reqs[r].pc # "free"

\* C15 (as stated): an exception raised while a batch is matched or
\* extracted is caught within that batch: no batch ends with an exception
\* leaving the observer callback, and the response elements of the batch
\* are extracted and sent all the same.
C15_FaultsCaughtPerBatch ==
    last.op = "batch" =>
        /\ ~last.escaped
        /\ Truthy(last.flag) => last.extractions = last.markerNodes

\* C16 (as stated): the extractor's result is null when the platform is
\* unknown or the document holds no message, and the observer relays only
\* non-null results: a batch whose extraction finds no message, or that is
\* delivered on an unknown-platform page, issues no network call.
C16_NullSnapshotNotRelayed ==
    (last.op = "batch" /\ (last.context.platform = "unknown"
                           \/ last.context.messages = <<>>))
    => last.fetches = 0

\* the sender markers the platforms use for the two parties of a
\* conversation
KnownSenders == {"user", "assistant", "You", "Claude", "YOUR AI"}

\* C17 (as stated): every message of every snapshot sent has a role among
\* user, assistant and unknown, and a message whose element carries no
\* sender marker, or one outside the platform's vocabulary, has the role
\* unknown.
C17_RolesNormalized ==
    \A i \in PageCalls :
        LET c == net[i].body[2]
        IN  /\ \A k \in 1..Len(c.messages) :
                  c.messages[k].role \in {"user", "assistant", "unknown"}
            /\ (last.op = "batch" /\ c = last.context /\ Len(c.messages) = Len(doc))
               => \A k \in 1..Len(doc) :
                      doc[k].role \notin KnownSenders => c.messages[k].role = "unknown"

\* C18: every network call made for a relay-channel request is a POST to
\* /process_interaction, never to /ingest, made for an enrichPrompt request,
\* and its body holds exactly the text of that request and the platform
\* label; a pingServer request (like any other action) makes no call.
C18_RelayNeverReachesIngest ==
    /\ \A i \in NetSlots : (net[i].pc # "free" /\ net[i].ctx = "background") =>
          /\ net[i].url # IngestUrl
          /\ net[i].url = ProcessInteractionUrl
          /\ net[i].method = "POST"
          /\ net[i].req \in ReqSlots
          /\ reqs[net[i].req].action = "enrichPrompt"
          /\ net[i].body = <<"json", [text |-> reqs[net[i].req].text,
                                      platform |-> "ChromeExtension_v2"]>>
    /\ \A r \in ReqSlots : (reqs[r].pc # "free" /\ reqs[r].action # "enrichPrompt") =>
          (CallsOf(r) = {} /\ reqs[r].fetches = 0)

\* C18 witness: an enrichPrompt POST is in flight while a pingServer request
\* has been handled without any call.
C18_Witness ==
    /\ \E i \in NetSlots : /\ net[i].pc = "pending" /\ net[i].ctx = "background"
                           /\ net[i].body[2].text = "hello"
    /\ \E r \in ReqSlots : /\ reqs[r].pc = "handled" /\ reqs[r].action = "pingServer"
                           /\ reqs[r].fetches = 0

\* C19: the body of every POST to /ingest is the JSON form of one snapshot
\* with exactly the fields platform, url, timestamp, conversation_id and
\* messages: platform is the tag of the page's host, url the page address,
\* timestamp a clock reading not later than now, and every message has
\* exactly a role and a content; each call a batch issues carries a snapshot
\* extracted in that batch, stamped with a clock reading taken during the
\* batch, whose message contents are the marker texts of the document's
\* message elements, in document order, empty ones left out.
C19_BodyIsSnapshotUnchanged ==
    /\ [](\A i \in PageCalls :
            /\ net[i].url = IngestUrl /\ net[i].method = "POST"
            /\ net[i].body[1] = "json"
            /\ DOMAIN net[i].body[2] =
                  {"platform", "url", "timestamp", "conversation_id", "messages"}
            /\ net[i].body[2].platform = HostTag(page.hostname)
            /\ net[i].body[2].url = page
            /\ net[i].body[2].timestamp[2] \in 0..now
            /\ \A k \in 1..Len(net[i].body[2].messages) :
                  DOMAIN net[i].body[2].messages[k] = {"role", "content"})
    /\ []((last.op = "batch" /\ last.fetches >= 1) =>
            LET filled == SelectSeq(doc, LAMBDA el : el.text # "")
            IN  /\ Cardinality({i \in PageCalls : net[i].body = <<"json", last.context>>})
                      >= 1
                /\ Len(last.context.messages) = Len(filled)
                /\ \A k \in 1..Len(filled) :
                      last.context.messages[k].content = filled[k].text)
    /\ [][(last'.op = "batch" /\ net' # net) =>
            /\ last'.context.timestamp[2] \in now..now'
            /\ \A i \in NetSlots : net'[i] # net[i] =>
                  /\ net'[i].body[1] = "json"
                  /\ net'[i].body[2].timestamp[1] = "iso"
                  /\ net'[i].body[2].timestamp[2] \in now..now'
                  /\ net'[i].body[2].platform = last'.context.platform
                  /\ net'[i].body[2].url = last'.context.url
                  /\ net'[i].body[2].messages = last'.context.messages]_vars

\* C19 witness: a batch on a Claude page has sent the snapshot of a
\* two-message document twice, and the clock advanced between the two
\* extractions: the two bodies differ in their timestamps only.
C19_Witness ==
    /\ last.op = "batch" /\ last.fetches = 2
    /\ last.context.timestamp = <<"iso", 1>>
    /\ last.context.messages = <<[role |-> "user", content |-> "Hi"],
                                 [role |-> "assistant", content |-> "Hello world"]>>
    /\ \A i \in PageCalls : net[i].body[2].messages = last.context.messages
    /\ \E i \in PageCalls : net[i].body[2].timestamp = <<"iso", 0>>

\* C20: while capture is enabled on a known platform, the batches that
\* trigger are exactly those adding an element that is, or contains, the
\* platform's response marker, one extraction and one delivery per such
\* element; a batch that adds only text nodes, plain
\* elements or markers of another platform, or that only removes nodes,
\* triggers nothing, and while capture is disabled nothing triggers at all.
C20_TriggerIffMarkerElement ==
    /\ [](last.op = "batch" =>
            /\ last.extractions = last.fetches
            /\ last.extractions <= last.markerNodes
            /\ Truthy(last.flag) => last.extractions = last.markerNodes
            /\ ~Truthy(last.flag) => last.extractions = 0)
    /\ [][(last'.op = "batch" /\ net' # net) => last'.markerNodes >= 1]_vars

\* C20 witness: with capture enabled on a ChatGPT page, a batch that added a
\* bare Claude or Perplexity marker, or a text node only, has triggered
\* nothing although the page is a known platform.
C20_Witness ==
    /\ last.op = "batch" /\ last.flag = "true"
    /\ last.context.platform = "chatgpt"
    /\ last.markerNodes = 0 /\ last.extractions = 0 /\ last.fetches = 0
    /\ PageCalls = {}

(* ------------------------ order, batches, relays ---------------------- *)
\* C21: on a ChatGPT or Claude page the messages of the snapshot a batch
\* extracts are the message elements of the document with a non-empty
\* marker text, one message per element and in document order: an element
\* with empty text is left out, and two elements with the same text both
\* appear.
C21_MessagesInDocumentOrder ==
    (last.op = "batch" /\ last.extractions >= 1
        /\ last.context.platform \in {"chatgpt", "claude"})
    => LET kept == SelectSeq(doc, LAMBDA el : el.marker # "none" /\ el.text # "")
       IN  /\ Len(last.context.messages) = Len(kept)
           /\ Len(doc) - Len(last.context.messages)
                 = Cardinality({k \in 1..Len(doc) : doc[k].text = ""})
           /\ \A k \in 1..Len(kept) :
                 last.context.messages[k].content = kept[k].text

\* C21 witness: a snapshot of a Claude document with two elements of equal
\* text holds two equal messages.
C21_Witness ==
    /\ last.op = "batch" /\ last.extractions >= 1
    /\ doc = <<ClaudeReply, ClaudeReply>>
    /\ Len(last.context.messages) = 2
    /\ last.context.messages[1] = last.context.messages[2]

\* C22: a batch is processed in one piece under the capture flag read at its
\* start: either every added node holding the platform's marker is
\* extracted and sent or none is, never a part of them; the batch leaves
\* the flag as it found it, all calls of one batch carry the same document
\* under the same platform tag and address (their clock readings may differ),
\* and a toggle step issues no call and reads no document, so that it takes
\* effect between batches only; every batch delivered is a step of its own.
C22_BatchRunsToCompletion ==
    /\ [](last.op = "batch" =>
            /\ last.flag = isCapturing
            /\ last.extractions \in {0, last.markerNodes}
            /\ last.fetches \in {0, last.markerNodes})
    /\ [][(last'.op = "batch" /\ net' # net) =>
            /\ isCapturing' = isCapturing
            /\ Truthy(isCapturing)
            /\ \A i, j \in NetSlots : (net'[i] # net[i] /\ net'[j] # net[j])
                  => /\ net'[i].body[2].messages = net'[j].body[2].messages
                     /\ net'[i].body[2].platform = net'[j].body[2].platform
                     /\ net'[i].body[2].url = net'[j].body[2].url]_vars
    /\ [][isCapturing' # isCapturing => (net' = net /\ doc' = doc)]_vars

\* C22 witness: one batch with two response elements has issued two calls
\* with the same messages, extracted at different clock readings.
C22_Witness ==
    /\ last.op = "batch" /\ last.flag = "true"
    /\ last.markerNodes = 2 /\ last.fetches = 2
    /\ \A i, j \in PageCalls : net[i].body[2].messages = net[j].body[2].messages
    /\ \E i, j \in PageCalls : net[i].body[2].timestamp # net[j].body[2].timestamp

\* C23: deliveries are not serialized: a batch delivered while capture is on
\* issues a call for each of its response elements although earlier calls
\* have not returned, and leaves those as they are; the background listener
\* issues the call of an enrichPrompt request although other calls are in
\* flight; a call that resumes (its fetch settled, or its body was read)
\* leaves every other call as it is; and a call may complete while a call
\* issued before it is still in flight.
C23_DeliveriesNotSerialized ==
    /\ [][(last'.op = "batch" /\ Truthy(isCapturing) /\ PageCalls # {})
            => /\ last'.fetches = last'.markerNodes
               /\ \A i \in NetSlots : net[i].pc # "free" => net'[i] = net[i]]_vars
    /\ [][(last'.op = "listener" /\ last'.action = "enrichPrompt")
            => /\ Cardinality({i \in NetSlots : /\ net[i].pc = "free"
                                                /\ net'[i].pc = "pending"
                                                /\ net'[i].req = last'.req}) = 1
               /\ \A i \in NetSlots : net[i].pc # "free" => net'[i] = net[i]]_vars
    /\ [][last'.op \in {"delivery", "headers", "reply"} =>
            /\ Cardinality({i \in NetSlots : net'[i] # net[i]}) = 1
            /\ \A i \in NetSlots : net'[i] # net[i] =>
                  \/ net[i].pc \in {"pending", "json"} /\ net'[i].pc = "free"
                  \/ net[i].pc = "pending" /\ net'[i].pc = "json"]_vars

\* C23 witness: the snapshot captured at clock 1 has been delivered while
\* the one captured at clock 0, and so issued before it, is still pending.
C23_Witness ==
    /\ last.op = "delivery" /\ last.at = <<"iso", 1>> /\ last.result # Null
    /\ \E i \in PageCalls : /\ net[i].pc = "pending"
                            /\ net[i].body[2].timestamp = <<"iso", 0>>

\* C24: a call that is in flight changes only when it resumes itself (its
\* fetch settles, its body is read), never through a toggle or a batch, and
\* it keeps its request as posted until it returns; what a capture delivery
\* returns depends on the response alone (the parsed body, or null on a
\* failure), whatever the capture flag is by then; and a batch delivered
\* while capture is off issues no new call.
C24_NoCancellation ==
    /\ [][\A i \in NetSlots : (net[i].pc # "free" /\ net'[i] # net[i]) =>
            /\ last'.op \in {"delivery", "headers", "reply"}
            /\ \/ net'[i].pc = "free"
               \/ /\ net[i].pc = "pending" /\ net'[i].pc = "json"
                  /\ net'[i].body = net[i].body /\ net'[i].url = net[i].url
                  /\ net'[i].posts = net[i].posts]_vars
    /\ [](last.op = "delivery" =>
            last.result = IF IsFailure(last.resp) THEN Null ELSE Parsed(last.resp.body))
    /\ []((last.op = "batch" /\ ~Truthy(last.flag)) => last.fetches = 0)

\* C24 witness: a capture delivery has completed successfully after capture
\* was switched off, while another capture, whose response headers are in
\* and whose body is not read yet, is still in flight.
C24_Witness ==
    /\ last.op = "delivery" /\ last.result # Null
    /\ isCapturing = "false" /\ lastToggle = "false"
    /\ \E i \in PageCalls : net[i].pc = "json"

\* C25: a batch delivered while capture is on runs one extraction and issues
\* one delivery for each added node holding the response marker, all with
\* the same messages, and that snapshot holds a message for every
\* non-empty message element of the document after the batch, those that
\* were there (and were delivered) before the batch included.
C25_ReextractionPerNode ==
    /\ []((last.op = "batch" /\ Truthy(last.flag)) =>
            /\ last.extractions = last.markerNodes
            /\ last.fetches = last.markerNodes
            /\ Cardinality({i \in PageCalls :
                    net[i].body[2].messages = last.context.messages}) >= last.fetches)
    /\ [][(last'.op = "batch" /\ net' # net) =>
            /\ Len(last'.context.messages)
                  = Cardinality({k \in 1..Len(doc') : doc'[k].text # ""})
            /\ Len(last'.context.messages) >= Len(doc') - last'.markerNodes
            /\ \A i \in NetSlots : net'[i] # net[i] =>
                  net'[i].body[2].messages = last'.context.messages]_vars

\* C25 witness: a reply was added to a one-message document while the
\* delivery of that first message is still pending: two snapshots are in
\* flight and the first message is in both.
C25_Witness ==
    /\ last.op = "batch" /\ last.markerNodes = 1 /\ last.fetches = 1
    /\ Len(last.context.messages) = 2
    /\ \E i, j \in PageCalls :
          /\ Len(net[i].body[2].messages) = 1
          /\ net[j].body[2].messages = last.context.messages
          /\ net[i].body[2].messages[1] = net[j].body[2].messages[1]

\* C26: a user message the page adds while capture is off enters the
\* document and causes no call at that time; every snapshot sent later, the
\* first one after capture is switched on again included, holds that message
\* at its place in document order for as long as the element is in the
\* document.
C26_DisabledAdditionsCaughtUpLater ==
    /\ [][(last'.op = "batch" /\ ~Truthy(isCapturing)) =>
            /\ net' = net
            /\ last'.fetches = 0
            /\ Len(doc') = Len(doc) + 1 /\ doc'[Len(doc')] = ClaudeAsk]_vars
    /\ [][(last'.op = "batch" /\ net' # net) =>
            /\ Truthy(isCapturing)
            /\ Len(last'.context.messages) = Len(doc')
            /\ \A k \in 1..Len(doc') : doc'[k] = ClaudeAsk =>
                  last'.context.messages[k] = [role |-> "user", content |-> "Hi"]
            /\ \A i \in NetSlots : net'[i] # net[i] =>
                  net'[i].body[2].messages = last'.context.messages]_vars

\* C26 witness: the only call in flight is the first snapshot after capture
\* was switched on, and it holds the user message added while capture was
\* off ahead of the reply that triggered it.
C26_Witness ==
    /\ last.op = "batch" /\ last.flag = "true" /\ last.fetches = 1
    /\ doc = <<ClaudeAsk, ClaudeReply>>
    /\ last.context.messages = <<[role |-> "user", content |-> "Hi"],
                                 [role |-> "assistant", content |-> "Hello world"]>>
    /\ Cardinality(PageCalls) = 1
    /\ failures = 0

(* -------------------- toggles, other actions, replies ----------------- *)
\* C27 (as stated): the capture flag is the enabled value of the last
\* toggle received, false when none was, and a batch delivered after a
\* toggle whose enabled value is anything but true (false, missing, or
\* another value) triggers nothing.
C27_LastToggleWins ==
    /\ isCapturing = (IF lastToggle = "none" THEN "false" ELSE lastToggle)
    /\ (last.op = "batch" /\ last.flag # "true") => last.fetches = 0

\* C28: a message to the page whose action is not "toggle" gets no
\* acknowledgment and changes nothing, the capture flag included; a message
\* to the background whose action is neither "enrichPrompt" nor
\* "pingServer" issues no network call and sends no reply, the listener
\* returns undefined for it so that the reply channel is not held open, and
\* the sender's callback receives no response.
C28_UnrecognizedActionsChangeNothing ==
    /\ [][last'.op = "ignored" =>
            /\ last'.ack = <<>>
            /\ UNCHANGED <<page, isCapturing, lastToggle, doc, now, net, reqs,
                           popupStatus, failures>>]_vars
    /\ [][(last'.op = "listener" /\ last'.action \notin {"enrichPrompt", "pingServer"}) =>
            /\ net' = net
            /\ last'.returned = "undefined"
            /\ reqs'[last'.req].replies = <<>>
            /\ reqs'[last'.req].fetches = 0
            /\ reqs'[last'.req].channel = "closed"
            /\ UNCHANGED <<page, isCapturing, doc, popupStatus>>]_vars
    /\ []((last.op = "callback" /\ last.action \notin {"enrichPrompt", "pingServer"})
            => last.response = <<>>)

\* C28 witness: the background has just handled a getStats message while
\* capture is on and an enrichPrompt call is pending.
C28_Witness ==
    /\ last.op = "listener" /\ last.action = "getStats"
    /\ reqs[last.req].channel = "closed"
    /\ Truthy(isCapturing)
    /\ \E i \in NetSlots : net[i].pc = "pending" /\ net[i].ctx = "background"

\* C29: when the call of an enrichPrompt request settles, one reply is sent,
\* on the channel of the request that call was made for, and every other
\* request is left as it was; the reply is built from the response of that
\* call alone (an error reply only when its own fetch failed or its body did
\* not parse, an ok reply carrying its own body); no request ever holds two
\* replies, and the sender's callback receives the reply of its own
\* request.
C29_RepliesRoutedToOwnRequest ==
    /\ [][last'.op = "reply" =>
            /\ \A i \in NetSlots : net'[i] # net[i] =>
                  (net[i].req = last'.req /\ net'[i].pc = "free")
            /\ \A r \in ReqSlots : r # last'.req => reqs'[r] = reqs[r]
            /\ reqs[last'.req].replies = <<>>
            /\ reqs'[last'.req].replies = <<last'.reply>>
            /\ last'.reply.status = "error"
                  <=> (last'.resp.neterr \/ last'.resp.body = "unparseable")
            /\ last'.reply.status = "ok" => last'.reply.data = last'.resp.body]_vars
    /\ [](\A r \in ReqSlots : reqs[r].pc # "free" => Len(reqs[r].replies) <= 1)
    /\ [][(last'.op = "callback" /\ last'.action = "enrichPrompt") =>
            \E r \in ReqSlots : /\ reqs[r].pc = "replied" /\ reqs'[r].pc = "free"
                                /\ last'.response = reqs[r].replies]_vars

\* C29 witness: of two enrichPrompt requests in flight together, one has
\* been answered with an error and the other, just now, with ok.
C29_Witness ==
    /\ last.op = "reply" /\ last.reply.status = "ok"
    /\ reqs[last.req].action = "enrichPrompt"
    /\ \E r \in ReqSlots :
          /\ r # last.req
          /\ reqs[r].pc = "replied" /\ reqs[r].action = "enrichPrompt"
          /\ reqs[r].replies = <<[status |-> "error"]>>

\* C30: the popup status is "Pinging..." right after a click and changes
\* only at a click or when the callback of the popup's own request runs;
\* the callback writes "Success!" only for a response whose status is "ok"
\* and "Error!" for every other one, a missing (undefined) response
\* included.
C30_PopupNeverReportsFalseSuccess ==
    /\ [](last.op = "click" => popupStatus = "Pinging...")
    /\ [][popupStatus' # popupStatus =>
            \/ last'.op = "click"
            \/ last'.op = "callback" /\ last'.from = "popup"]_vars
    /\ [][(last'.op = "callback" /\ last'.from = "popup") =>
            /\ popupStatus' \in {"Success!", "Error!"}
            /\ popupStatus' = "Success!"
                  <=> (last'.response # <<>> /\ last'.response[1].status = "ok")]_vars

\* C30 witness: the callback of a ping has run without a response and the
\* popup shows "Error!".
C30_Witness ==
    /\ last.op = "callback" /\ last.from = "popup"
    /\ last.response = <<>>
    /\ popupStatus = "Error!"

\* the clock readings the extractions of a batch may take while the clock
\* goes no further than hi
ClockReads(added, hi) ==
    Readings(2 * Len(Triggers(isCapturing, page, added)), now, hi)

\* the page context alone, on a clock that stands still during the run and
\* with a document every batch replaces
NextPage ==
    \/ \E request \in ControlMsgs : ContentOnMessage(request)
    \/ \E added \in Batches : \E reads \in ClockReads(added, now) :
            ObserverCallback(added, Len(doc), reads)
    \/ \E i \in NetSlots : \E resp \in Responses : SendToCortexResume(i, resp)
    \/ \E i \in NetSlots : \E body \in Bodies : SendToCortexJson(i, body)

NextBg ==
    \/ \E r \in ReqSlots : \E action \in RelayActions : \E text \in RelayTexts :
            RelaySend(r, action, text)
    \/ \E r \in ReqSlots : PopupClick(r)
    \/ \E r \in ReqSlots : BackgroundOnMessage(r)
    \/ \E i \in NetSlots : \E resp \in Responses : EnrichSettle(i, resp)
    \/ \E i \in NetSlots : \E body \in Bodies : EnrichJson(i, body)
    \/ \E r \in ReqSlots : SendResponseCollected(r)
    \/ \E r \in ReqSlots : SenderCallback(r)

\* both contexts side by side on a Claude page, on a narrower alphabet of
\* inputs
InitBoth == Init /\ detectPlatform(page) = "claude"

NextBoth ==
    \/ \E enabled \in {"true", "false"} :
            ContentOnMessage([action |-> "toggle", enabled |-> enabled])
    \/ \E added \in {<<ClaudeReply>>, <<PlainDiv>>} :
            \E reads \in ClockReads(added, now) : ObserverCallback(added, Len(doc), reads)
    \/ \E i \in NetSlots : \E resp \in Responses : SendToCortexResume(i, resp)
    \/ \E i \in NetSlots : \E body \in Bodies : SendToCortexJson(i, body)
    \/ \E r \in ReqSlots : RelaySend(r, "enrichPrompt", "prompt")
    \/ \E r \in ReqSlots : BackgroundOnMessage(r)
    \/ \E i \in NetSlots : \E resp \in Responses : EnrichSettle(i, resp)
    \/ \E i \in NetSlots : \E body \in Bodies : EnrichJson(i, body)
    \/ \E r \in ReqSlots : SenderCallback(r)

\* the page context alone on the wider alphabet of addresses and nodes, with
\* a running clock (any time may pass before a reading), deliveries that
\* succeed, a document every batch replaces, and a page that changes again
\* only after the captures of its last change have completed
InitExtract ==
    /\ page \in ExtractPages
    /\ isCapturing = "false"
    /\ doc = <<>>
    /\ now = 0
    /\ net = [i \in NetSlots |-> Free]
    /\ reqs = [r \in ReqSlots |-> Free]
    /\ popupStatus = ""
    /\ failures = 0
    /\ lastToggle = "none"
    /\ last = [op |-> "init"]

NextExtract ==
    \/ \E enabled \in {"true", "false"} :
            ContentOnMessage([action |-> "toggle", enabled |-> enabled])
    \/ /\ PageCalls = {}
       /\ \E added \in ExtractBatches(page) : \E reads \in ClockReads(added, MaxTime) :
            ObserverCallback(added, Len(doc), reads)
    \/ \E i \in NetSlots : \E resp \in {r \in Responses : ~IsFailure(r)} :
            SendToCortexResume(i, resp)
    \/ \E i \in NetSlots : SendToCortexJson(i, "ack")

\* the extraction runs with faults: an added element may make the observer's
\* DOM call raise
NextFault ==
    \/ \E enabled \in {"true", "false"} :
            ContentOnMessage([action |-> "toggle", enabled |-> enabled])
    \/ /\ PageCalls = {}
       /\ \E added \in FaultBatches(page) : \E reads \in ClockReads(added, MaxTime) :
            ObserverCallback(added, Len(doc), reads)
    \/ \E i \in NetSlots : \E resp \in {r \in Responses : ~IsFailure(r)} :
            SendToCortexResume(i, resp)
    \/ \E i \in NetSlots : SendToCortexJson(i, "ack")

\* a Claude conversation that grows: while capture is off the page adds a
\* user message, while it is on it adds replies (one or two at a time) or
\* plain elements and may drop its oldest messages; deliveries succeed, and
\* the clock stands still during the run
NextGrow ==
    \/ \E enabled \in {"true", "false"} :
            ContentOnMessage([action |-> "toggle", enabled |-> enabled])
    \/ ~Truthy(isCapturing) /\ ObserverCallback(<<ClaudeAsk>>, 0, <<>>)
    \/ /\ Truthy(isCapturing)
       /\ \E added \in {<<ClaudeReply>>, <<ClaudeReply, ClaudeReply>>, <<PlainDiv>>} :
            \E removed \in 0..Len(doc) : \E reads \in ClockReads(added, now) :
                ObserverCallback(added, removed, reads)
    \/ \E i \in NetSlots : \E resp \in {r \in Responses : ~IsFailure(r)} :
            SendToCortexResume(i, resp)
    \/ \E i \in NetSlots : SendToCortexJson(i, "ack")

\* both contexts on a Claude page, each receiving every kind of message:
\* toggles and other actions in the page, the three relay actions in the
\* background, with a capture in flight beside them
NextOther ==
    \/ \E request \in ControlMsgs : ContentOnMessage(request)
    \/ \E reads \in ClockReads(<<ClaudeReply>>, now) :
            ObserverCallback(<<ClaudeReply>>, Len(doc), reads)
    \/ \E i \in NetSlots : \E resp \in {r \in Responses : ~IsFailure(r)} :
            SendToCortexResume(i, resp)
    \/ \E i \in NetSlots : SendToCortexJson(i, "ack")
    \/ \E r \in ReqSlots : \E action \in RelayActions : RelaySend(r, action, "prompt")
    \/ \E r \in ReqSlots : BackgroundOnMessage(r)
    \/ \E i \in NetSlots : \E resp \in Responses : EnrichSettle(i, resp)
    \/ \E i \in NetSlots : \E body \in Bodies : EnrichJson(i, body)
    \/ \E r \in ReqSlots : SenderCallback(r)

\* captures and enrichPrompt requests racing on a Claude page under a
\* running clock: every batch replaces the document by one reply, and the
\* network calls of both contexts succeed
NextRace ==
    \/ \E enabled \in {"true", "false"} :
            ContentOnMessage([action |-> "toggle", enabled |-> enabled])
    \/ \E reads \in ClockReads(<<ClaudeReply>>, MaxTime) :
            ObserverCallback(<<ClaudeReply>>, Len(doc), reads)
    \/ \E i \in NetSlots : \E resp \in {r \in Responses : ~IsFailure(r)} :
            SendToCortexResume(i, resp)
    \/ \E i \in NetSlots : SendToCortexJson(i, "ack")
    \/ \E r \in ReqSlots : RelaySend(r, "enrichPrompt", "prompt")
    \/ \E r \in ReqSlots : BackgroundOnMessage(r)
    \/ \E i \in NetSlots : \E resp \in {r \in Responses : ~IsFailure(r)} :
            EnrichSettle(i, resp)
    \/ \E i \in NetSlots : EnrichJson(i, "ack")
    \/ \E r \in ReqSlots : SenderCallback(r)

Next == NextPage \/ NextBg

Spec == Init /\ [][Next]_vars
SpecPage == Init /\ [][NextPage]_vars
SpecBg == Init /\ [][NextBg]_vars
SpecBoth == InitBoth /\ [][NextBoth]_vars
SpecExtract == InitExtract /\ [][NextExtract]_vars
SpecFault == InitExtract /\ [][NextFault]_vars
SpecGrow == InitBoth /\ [][NextGrow]_vars
SpecOther == InitBoth /\ [][NextOther]_vars
SpecRace == InitBoth /\ [][NextRace]_vars
====
